---- MODULE Spec2Model ----
(***************************************************************************)
(* Model of src/compression.cpp: compressFile and decompressFile, the      *)
(* chunk worker threads they start, and main(), which runs one after the   *)
(* other.  Files are byte sequences; a std::ifstream is a read position    *)
(* and an eof flag; every std::thread is a record with its own position    *)
(* in the lambda it runs.                                                  *)
(***************************************************************************)
EXTENDS Integers, Sequences, FiniteSets, TLC

(* ------------------------------------------------------------------------ *)
(* Bounds of the model                                                      *)
(* ------------------------------------------------------------------------ *)

\* longest input file, in bytes
MaxLen == 5

\* constexpr size_t CHUNK_SIZE = 16384, scaled down so that MaxLen bytes
\* span several chunks
CHUNK_SIZE == 2

\* sizeof(uLong), the width of the length field of a chunk record
SizeofULong == 8

\* the byte values an input file is made of
Bytes == {0, 1}

\* "CMP1"
Magic == <<67, 77, 80, 49>>

(* ------------------------------------------------------------------------ *)
(* Pure helpers                                                             *)
(* ------------------------------------------------------------------------ *)

Min(a, b) == IF a <= b THEN a ELSE b

RECURSIVE SumBytes(_)
SumBytes(s) == IF s = <<>> THEN 0 ELSE Head(s) + SumBytes(Tail(s))

RECURSIVE Concat(_)
Concat(ss) == IF ss = <<>> THEN <<>> ELSE Head(ss) \o Concat(Tail(ss))

\* outFile.write(reinterpret_cast<const char*>(&chunkSize), sizeof(chunkSize)):
\* the little-endian bytes of a uLong
RECURSIVE LittleEndian(_, _)
LittleEndian(n, width) ==
    IF width = 0 THEN <<>> ELSE <<n % 256>> \o LittleEndian(n \div 256, width - 1)

ULongBytes(n) == LittleEndian(n, SizeofULong)

\* inFile.read(reinterpret_cast<char*>(&chunkSize), sizeof(chunkSize))
RECURSIVE ULongValue(_)
ULongValue(bs) == IF bs = <<>> THEN 0 ELSE Head(bs) + 256 * ULongValue(Tail(bs))

\* zlib's compress(): a stream that is not the raw data (a leading method
\* byte and a trailing checksum), from which the data can be recovered
ZCompress(data) == <<120>> \o data \o <<(SumBytes(data) + Len(data)) % 256>>

\* zlib's uncompress(dest, &destLen, src, srcLen): "Z_DATA_ERROR" for a
\* stream compress() did not make, "Z_BUF_ERROR" when the data does not fit
\* destLen bytes, else the data (its length is the new destLen)
ZUncompress(src, destLen) ==
    IF Len(src) < 2 \/ src[1] # 120 THEN [rc |-> "Z_DATA_ERROR", data |-> <<>>]
    ELSE LET data == SubSeq(src, 2, Len(src) - 1)
         IN IF src[Len(src)] # (SumBytes(data) + Len(data)) % 256
               THEN [rc |-> "Z_DATA_ERROR", data |-> <<>>]
            ELSE IF Len(data) > destLen
               THEN [rc |-> "Z_BUF_ERROR", data |-> <<>>]
            ELSE [rc |-> "Z_OK", data |-> data]

\* compressBlock(data); zOK is whether compress() returned Z_OK
compressBlock(data, zOK) ==
    IF data = <<>> THEN [threw |-> FALSE, data |-> <<>>]
    ELSE IF ~zOK THEN [threw |-> TRUE, data |-> <<>>]
    ELSE [threw |-> FALSE, data |-> ZCompress(data)]

\* decompressBlock(compressedData, originalSize); zOK is FALSE when
\* uncompress() fails for a reason of its own (Z_MEM_ERROR)
decompressBlock(compressedData, originalSize, zOK) ==
    IF compressedData = <<>> THEN [threw |-> FALSE, data |-> <<>>]
    ELSE LET r == ZUncompress(compressedData, originalSize)
         IN IF ~zOK \/ r.rc # "Z_OK" THEN [threw |-> TRUE, data |-> <<>>]
            ELSE [threw |-> FALSE, data |-> r.data]

\* std::istream::read(buf, n) followed by gcount() and eof(): the bytes
\* extracted, and eofbit, set when the stream ended before n bytes
StreamRead(file, pos, n) ==
    LET got == Min(n, Len(file) - pos)
    IN [data |-> SubSeq(file, pos + 1, pos + got),
        gcount |-> got,
        pos |-> pos + got,
        eof |-> got < n]

\* std::istream::read(buf, n) that meets an I/O error after k bytes: badbit
\* is set, eofbit is not; with k = 0 also a read of a stream that is already
\* bad, which extracts nothing
BrokenRead(file, pos, k) ==
    [data |-> SubSeq(file, pos + 1, pos + k),
     gcount |-> k,
     pos |-> pos + k,
     eof |-> FALSE]

\* what the device may do to a read of n bytes at pos: -1 for no error, else
\* the number of bytes it delivers before the error
ReadFaults(file, pos, n) == {-1} \cup (0..(Min(n, Len(file) - pos) - 1))

\* one chunk record: the length field, then the payload
Record(chunk) == ULongBytes(Len(chunk)) \o chunk

RECURSIVE Records(_)
Records(chunks) ==
    IF chunks = <<>> THEN <<>> ELSE Record(Head(chunks)) \o Records(Tail(chunks))

(* ------------------------------------------------------------------------ *)
(* State                                                                    *)
(* ------------------------------------------------------------------------ *)

VARIABLES
    entry,               \* the operation the run starts in: "main" or "decompressFile"
    pc,                  \* where the calling thread is
    outcome,             \* "running", "ok", "error" (exception left the operation), "terminate"
    input,               \* input.txt
    compressed,          \* compressed.dat
    decompressed,        \* decompressed.txt
    inPos,               \* read position of inFile
    inEof,               \* inFile.eof()
    inBad,               \* inFile.bad(): a read of inFile met an I/O error
    threads,             \* std::vector<std::thread> threads
    joined,              \* how many of threads the join loop has joined
    compressedChunks,    \* std::vector<std::vector<char>> compressedChunks
    decompressedChunks,  \* std::vector<std::vector<char>> decompressedChunks
    compressionMutex,    \* 0 when free, else the thread holding it
    decompressionMutex,  \* 0 when free, else the thread holding it
    output_mutex,        \* 0 when free, else the thread holding it
    threadException      \* 0 for nullptr, else the thread whose exception it holds

vars == <<entry, pc, outcome, input, compressed, decompressed, inPos, inEof, inBad,
          threads, joined, compressedChunks, decompressedChunks,
          compressionMutex, decompressionMutex, output_mutex, threadException>>

(* ------------------------------------------------------------------------ *)
(* Initial states                                                           *)
(* ------------------------------------------------------------------------ *)

\* the input files: every byte sequence of at most MaxLen bytes
Inputs == UNION {[1..n -> Bytes] : n \in 0..MaxLen}

\* what compressFile is to make of an input: the chunks of at most
\* CHUNK_SIZE bytes in stream order
NumChunks(L) == (L + CHUNK_SIZE - 1) \div CHUNK_SIZE

ChunkAt(inp, i) == SubSeq(inp, (i - 1) * CHUNK_SIZE + 1, Min(i * CHUNK_SIZE, Len(inp)))

ChunksOf(inp) == [i \in 1..NumChunks(Len(inp)) |-> ChunkAt(inp, i)]

Framed(inp) == Magic \o Records([i \in 1..NumChunks(Len(inp)) |-> ZCompress(ChunkAt(inp, i))])

\* a stream with one byte replaced
Damaged(s, k) == [s EXCEPT ![k] = (s[k] + 1) % 256]

\* the files decompressFile is started on: a well-formed stream cut at any
\* byte, or with one byte of the magic tag or of a payload damaged
Streams ==
    UNION {
        {SubSeq(Framed(inp), 1, k) : k \in 0..Len(Framed(inp))}
        \cup {Damaged(Framed(inp), k) : k \in 1..Len(Magic)}
        \cup {Damaged(Framed(inp), Len(Framed(inp)))}
      : inp \in Inputs }

NoThreads == <<>>

Init ==
    /\ \/ /\ entry = "main"
          /\ pc = "compressFile"
          /\ input \in Inputs
          /\ compressed = <<>>
       \/ /\ entry = "decompressFile"
          /\ pc = "decompressFile"
          /\ input = <<>>
          /\ compressed \in Streams
    /\ outcome = "running"
    /\ decompressed = <<>>
    /\ inPos = 0
    /\ inEof = FALSE
    /\ inBad = FALSE
    /\ threads = NoThreads
    /\ joined = 0
    /\ compressedChunks = <<>>
    /\ decompressedChunks = <<>>
    /\ compressionMutex = 0
    /\ decompressionMutex = 0
    /\ output_mutex = 0
    /\ threadException = 0

(* ------------------------------------------------------------------------ *)
(* compressFile, the calling thread                                         *)
(* ------------------------------------------------------------------------ *)

\* a std::thread that was just constructed over a copy of buffer
\* threw records that the lambda went into its catch handler
\* originalSize is the second argument of the decompressBlock call, once made
NewThread(buffer) ==
    [pc |-> "run", buffer |-> buffer, result |-> <<>>, threw |-> FALSE, originalSize |-> 0]

\* CompressOpen with line 66, the write of the header, left out
CompressOpenNoHeader ==
    /\ outcome = "running"
    /\ pc = "compressFile"
    /\ \E opened \in BOOLEAN :
          IF ~opened
             THEN /\ outcome' = "error"
                  /\ pc' = "c_open_failed"
                  /\ compressed' = <<>>
                  /\ UNCHANGED <<inPos, inEof, inBad, threads, joined,
                                 compressedChunks, threadException>>
             ELSE /\ compressed' = <<>>
                  /\ inPos' = 0
                  /\ inEof' = FALSE
                  /\ inBad' = FALSE
                  /\ threads' = NoThreads
                  /\ joined' = 0
                  /\ compressedChunks' = <<>>
                  /\ threadException' = 0
                  /\ pc' = "c_read"
                  /\ UNCHANGED outcome
    /\ UNCHANGED <<entry, input, decompressed, decompressedChunks,
                   compressionMutex, decompressionMutex, output_mutex>>

\* lines 54-71: the files are opened; when one is not open the function
\* throws with the output file empty; else the header is written and the
\* locals are constructed
CompressOpen ==
    /\ outcome = "running"
    /\ pc = "compressFile"
    /\ \E opened \in BOOLEAN :
          IF ~opened
             THEN /\ outcome' = "error"
                  /\ pc' = "c_open_failed"
                  /\ compressed' = <<>>
                  /\ UNCHANGED <<inPos, inEof, inBad, threads, joined,
                                 compressedChunks, threadException>>
             ELSE /\ compressed' = Magic
                  /\ inPos' = 0
                  /\ inEof' = FALSE
                  /\ inBad' = FALSE
                  /\ threads' = NoThreads
                  /\ joined' = 0
                  /\ compressedChunks' = <<>>
                  /\ threadException' = 0
                  /\ pc' = "c_read"
                  /\ UNCHANGED outcome
    /\ UNCHANGED <<entry, input, decompressed, decompressedChunks,
                   compressionMutex, decompressionMutex, output_mutex>>

\* CompressReadChunk without line 78, `if (bytesRead == 0) break;`: an
\* empty read starts a thread like any other
CompressReadChunkNoBreak ==
    /\ outcome = "running"
    /\ pc = "c_read"
    /\ IF inEof
          THEN /\ pc' = "c_join"
               /\ UNCHANGED <<inPos, inEof, inBad, threads>>
          ELSE LET r == StreamRead(input, inPos, CHUNK_SIZE)
               IN /\ inPos' = r.pos
                  /\ inEof' = r.eof
                  /\ UNCHANGED inBad
                  /\ threads' = Append(threads, NewThread(r.data))
                  /\ pc' = "c_read"
    /\ UNCHANGED <<entry, outcome, input, compressed, decompressed, joined,
                   compressedChunks, decompressedChunks, compressionMutex,
                   decompressionMutex, output_mutex, threadException>>

\* lines 74-93: one test of the loop condition and, when it holds, one
\* iteration: read a chunk, leave on an empty read, else start a thread.
\* The state of inFile after the read is not looked at beyond eof().
CompressReadChunk ==
    /\ outcome = "running"
    /\ pc = "c_read"
    /\ IF inEof
          THEN /\ pc' = "c_join"
               /\ UNCHANGED <<inPos, inEof, inBad, threads>>
          ELSE \E fault \in IF inBad THEN {-1} ELSE ReadFaults(input, inPos, CHUNK_SIZE) :
               LET r == IF inBad THEN BrokenRead(input, inPos, 0)
                        ELSE IF fault >= 0 THEN BrokenRead(input, inPos, fault)
                        ELSE StreamRead(input, inPos, CHUNK_SIZE)
               IN /\ inPos' = r.pos
                  /\ inEof' = r.eof
                  /\ inBad' = (inBad \/ fault >= 0)
                  /\ IF r.gcount = 0
                        THEN /\ pc' = "c_join"
                             /\ UNCHANGED threads
                        ELSE /\ threads' = Append(threads, NewThread(r.data))
                             /\ pc' = "c_read"
    /\ UNCHANGED <<entry, outcome, input, compressed, decompressed, joined,
                   compressedChunks, decompressedChunks, compressionMutex,
                   decompressionMutex, output_mutex, threadException>>

\* CompressJoin with detach() in place of join(): the loop moves on without
\* waiting for the thread to finish
CompressJoinNoWait ==
    /\ outcome = "running"
    /\ pc = "c_join"
    /\ joined < Len(threads)
    /\ joined' = joined + 1
    /\ UNCHANGED <<entry, pc, outcome, input, compressed, decompressed, inPos,
                   inEof, inBad, threads, compressedChunks, decompressedChunks,
                   compressionMutex, decompressionMutex, output_mutex,
                   threadException>>

\* lines 96-100: thread.join() on the next thread, which returns once that
\* thread has finished
CompressJoin ==
    /\ outcome = "running"
    /\ pc = "c_join"
    /\ joined < Len(threads)
    /\ threads[joined + 1].pc = "done"
    /\ joined' = joined + 1
    /\ UNCHANGED <<entry, pc, outcome, input, compressed, decompressed, inPos,
                   inEof, inBad, threads, compressedChunks, decompressedChunks,
                   compressionMutex, decompressionMutex, output_mutex,
                   threadException>>

\* CompressFinish with the rethrow moved before the join loop has ended: the
\* failure is raised as soon as it is captured
CompressFinishEarlyAbort ==
    /\ outcome = "running"
    /\ pc = "c_join"
    /\ joined = Len(threads) \/ threadException # 0
    /\ IF threadException # 0
          THEN /\ outcome' = "error"
               /\ pc' = "c_rethrown"
               /\ UNCHANGED compressed
          ELSE /\ compressed' = compressed \o Records(compressedChunks)
               /\ pc' = "decompressFile"
               /\ UNCHANGED outcome
    /\ UNCHANGED <<entry, input, decompressed, inPos, inEof, inBad, threads, joined,
                   compressedChunks, decompressedChunks, compressionMutex,
                   decompressionMutex, output_mutex, threadException>>

\* CompressFinish with the record loop (lines 108-112) placed before the
\* rethrow (lines 103-105)
CompressFinishWriteFirst ==
    /\ outcome = "running"
    /\ pc = "c_join"
    /\ joined = Len(threads)
    /\ compressed' = compressed \o Records(compressedChunks)
    /\ IF threadException # 0
          THEN /\ outcome' = "error"
               /\ pc' = "c_rethrown"
          ELSE /\ pc' = "decompressFile"
               /\ UNCHANGED outcome
    /\ UNCHANGED <<entry, input, decompressed, inPos, inEof, inBad, threads, joined,
                   compressedChunks, decompressedChunks, compressionMutex,
                   decompressionMutex, output_mutex, threadException>>

\* lines 103-113: after the join loop, rethrow the captured exception (main
\* catches it and returns 1), else write one record per collected chunk and
\* return to main, which calls decompressFile
CompressFinish ==
    /\ outcome = "running"
    /\ pc = "c_join"
    /\ joined = Len(threads)
    /\ IF threadException # 0
          THEN /\ outcome' = "error"
               /\ pc' = "c_rethrown"
               /\ UNCHANGED compressed
          ELSE /\ compressed' = compressed \o Records(compressedChunks)
               /\ pc' = "decompressFile"
               /\ UNCHANGED outcome
    /\ UNCHANGED <<entry, input, decompressed, inPos, inEof, inBad, threads, joined,
                   compressedChunks, decompressedChunks, compressionMutex,
                   decompressionMutex, output_mutex, threadException>>

(* ------------------------------------------------------------------------ *)
(* compressFile, the lambda of a worker thread (lines 83-92)                *)
(* ------------------------------------------------------------------------ *)

InCompress == pc \in {"c_read", "c_join"}

\* line 85: compressBlock(buffer), which returns or throws
CompressWorkerRun(i) ==
    /\ outcome = "running"
    /\ InCompress
    /\ threads[i].pc = "run"
    /\ \E zOK \in BOOLEAN :
          LET r == compressBlock(threads[i].buffer, zOK)
          IN threads' = [threads EXCEPT
                 ![i].pc = IF r.threw THEN "catch" ELSE "lock",
                 ![i].result = r.data,
                 ![i].threw = r.threw]
    /\ UNCHANGED <<entry, pc, outcome, input, compressed, decompressed, inPos,
                   inEof, inBad, joined, compressedChunks, decompressedChunks,
                   compressionMutex, decompressionMutex, output_mutex,
                   threadException>>

\* CompressWorkerLock over a mutex of the worker's own instead of the shared
\* compressionMutex: the lock is taken whoever else holds one
CompressWorkerLockOwnMutex(i) ==
    /\ outcome = "running"
    /\ InCompress
    /\ threads[i].pc = "lock"
    /\ compressionMutex' = i
    /\ threads' = [threads EXCEPT ![i].pc = "push"]
    /\ UNCHANGED <<entry, pc, outcome, input, compressed, decompressed, inPos,
                   inEof, inBad, joined, compressedChunks, decompressedChunks,
                   decompressionMutex, output_mutex, threadException>>

\* line 86: std::lock_guard<std::mutex> lock(compressionMutex)
CompressWorkerLock(i) ==
    /\ outcome = "running"
    /\ InCompress
    /\ threads[i].pc = "lock"
    /\ compressionMutex = 0
    /\ compressionMutex' = i
    /\ threads' = [threads EXCEPT ![i].pc = "push"]
    /\ UNCHANGED <<entry, pc, outcome, input, compressed, decompressed, inPos,
                   inEof, inBad, joined, compressedChunks, decompressedChunks,
                   decompressionMutex, output_mutex, threadException>>

\* CompressWorkerPush with a bare compressionMutex.lock() in place of the
\* lock_guard: the mutex is still held when the lambda returns
CompressWorkerPushKeepLock(i) ==
    /\ outcome = "running"
    /\ InCompress
    /\ threads[i].pc = "push"
    /\ compressedChunks' = Append(compressedChunks, threads[i].result)
    /\ threads' = [threads EXCEPT ![i].pc = "done"]
    /\ UNCHANGED <<entry, pc, outcome, input, compressed, decompressed, inPos,
                   inEof, inBad, joined, decompressedChunks, compressionMutex,
                   decompressionMutex, output_mutex, threadException>>

\* CompressWorkerPush storing at an index read before the lock was taken:
\* the result lands on the last element instead of behind it
CompressWorkerPushLost(i) ==
    /\ outcome = "running"
    /\ InCompress
    /\ threads[i].pc = "push"
    /\ compressedChunks' =
          IF compressedChunks = <<>> THEN <<threads[i].result>>
          ELSE [compressedChunks EXCEPT ![Len(compressedChunks)] = threads[i].result]
    /\ compressionMutex' = 0
    /\ threads' = [threads EXCEPT ![i].pc = "done"]
    /\ UNCHANGED <<entry, pc, outcome, input, compressed, decompressed, inPos,
                   inEof, inBad, joined, decompressedChunks, decompressionMutex,
                   output_mutex, threadException>>

\* line 87 and the end of the try block: push_back, then the lock is released
CompressWorkerPush(i) ==
    /\ outcome = "running"
    /\ InCompress
    /\ threads[i].pc = "push"
    /\ compressedChunks' = Append(compressedChunks, threads[i].result)
    /\ compressionMutex' = 0
    /\ threads' = [threads EXCEPT ![i].pc = "done"]
    /\ UNCHANGED <<entry, pc, outcome, input, compressed, decompressed, inPos,
                   inEof, inBad, joined, decompressedChunks, decompressionMutex,
                   output_mutex, threadException>>

\* line 89: std::lock_guard<std::mutex> lock(output_mutex)
CompressWorkerCatch(i) ==
    /\ outcome = "running"
    /\ InCompress
    /\ threads[i].pc = "catch"
    /\ output_mutex = 0
    /\ output_mutex' = i
    /\ threads' = [threads EXCEPT ![i].pc = "store"]
    /\ UNCHANGED <<entry, pc, outcome, input, compressed, decompressed, inPos,
                   inEof, inBad, joined, compressedChunks, decompressedChunks,
                   compressionMutex, decompressionMutex, threadException>>

\* line 90 and the end of the handler: threadException is assigned, then
\* the lock is released
CompressWorkerStore(i) ==
    /\ outcome = "running"
    /\ InCompress
    /\ threads[i].pc = "store"
    /\ threadException' = i
    /\ output_mutex' = 0
    /\ threads' = [threads EXCEPT ![i].pc = "done"]
    /\ UNCHANGED <<entry, pc, outcome, input, compressed, decompressed, inPos,
                   inEof, inBad, joined, compressedChunks, decompressedChunks,
                   compressionMutex, decompressionMutex>>

(* ------------------------------------------------------------------------ *)
(* decompressFile, the calling thread                                       *)
(* ------------------------------------------------------------------------ *)

\* what char header[4] may hold where inFile.read did not store a byte: the
\* array is not initialised, so the n bytes after a short read are whatever
\* the stack held, the end of the tag included
Uninitialised(n) == {SubSeq(Magic, Len(Magic) - n + 1, Len(Magic)), [i \in 1..n |-> 0]}

\* the destructor of a std::thread that is still joinable calls
\* std::terminate: an exception that unwinds past `threads` while it holds
\* threads (none was joined yet) ends the process instead of leaving the
\* operation
Thrown(ths) == IF Len(ths) > 0 THEN "terminate" ELSE "error"

\* lines 117-138: the files are opened; when one is not open the function
\* throws; else the header is read and compared and the locals are
\* constructed
DecompressOpen ==
    /\ outcome = "running"
    /\ pc = "decompressFile"
    /\ decompressed' = <<>>
    /\ \E opened \in BOOLEAN :
          IF ~opened
             THEN /\ outcome' = "error"
                  /\ pc' = "d_open_failed"
                  /\ UNCHANGED <<inPos, inEof, inBad, threads, joined,
                                 decompressedChunks, threadException>>
             ELSE /\ LET r == StreamRead(compressed, 0, Len(Magic))
                     IN /\ inPos' = r.pos
                        /\ inEof' = r.eof
                        /\ \E rest \in Uninitialised(Len(Magic) - r.gcount) :
                              IF r.data \o rest # Magic
                                 THEN /\ outcome' = "error"
                                      /\ pc' = "d_bad_header"
                                 ELSE /\ pc' = "d_read"
                                      /\ UNCHANGED outcome
                  /\ inBad' = FALSE
                  /\ threads' = NoThreads
                  /\ joined' = 0
                  /\ decompressedChunks' = <<>>
                  /\ threadException' = 0
    /\ UNCHANGED <<entry, input, compressed, compressedChunks,
                   compressionMutex, decompressionMutex, output_mutex>>

\* DecompressReadRecord with the length field checked like the payload: a
\* length field of which some but not all bytes are there is a truncated
\* record
DecompressReadRecordStrict ==
    /\ outcome = "running"
    /\ pc = "d_read"
    /\ IF inEof
          THEN /\ pc' = "d_join"
               /\ UNCHANGED <<inPos, inEof, inBad, threads, outcome>>
          ELSE LET f == StreamRead(compressed, inPos, SizeofULong)
                   chunkSize == ULongValue(f.data)
                   p == StreamRead(compressed, f.pos, chunkSize)
               IN IF f.eof /\ f.gcount = 0
                     THEN /\ inPos' = f.pos
                          /\ inEof' = TRUE
                          /\ pc' = "d_join"
                          /\ UNCHANGED <<inBad, threads, outcome>>
                  ELSE IF f.eof \/ p.gcount # chunkSize
                     THEN /\ inPos' = IF f.eof THEN f.pos ELSE p.pos
                          /\ inEof' = TRUE
                          /\ outcome' = Thrown(threads)
                          /\ pc' = "d_truncated"
                          /\ UNCHANGED <<inBad, threads>>
                  ELSE /\ inPos' = p.pos
                       /\ inEof' = p.eof
                       /\ threads' = Append(threads, NewThread(p.data))
                       /\ pc' = "d_read"
                       /\ UNCHANGED <<inBad, outcome>>
    /\ UNCHANGED <<entry, input, compressed, decompressed, joined,
                   compressedChunks, decompressedChunks, compressionMutex,
                   decompressionMutex, output_mutex, threadException>>

\* lines 141-165: one test of the loop condition and, when it holds, one
\* iteration: read the length field, leave at end of stream, read the
\* payload, throw when it is short, else start a thread
DecompressReadRecord ==
    /\ outcome = "running"
    /\ pc = "d_read"
    /\ IF inEof
          THEN /\ pc' = "d_join"
               /\ UNCHANGED <<inPos, inEof, inBad, threads, outcome>>
          ELSE LET f == StreamRead(compressed, inPos, SizeofULong)
                   chunkSize == ULongValue(f.data)
                   p == StreamRead(compressed, f.pos, chunkSize)
               IN IF f.eof
                     THEN /\ inPos' = f.pos
                          /\ inEof' = TRUE
                          /\ pc' = "d_join"
                          /\ UNCHANGED <<inBad, threads, outcome>>
                  ELSE IF p.gcount # chunkSize
                     THEN /\ inPos' = p.pos
                          /\ inEof' = p.eof
                          /\ outcome' = Thrown(threads)
                          /\ pc' = "d_truncated"
                          /\ UNCHANGED <<inBad, threads>>
                  ELSE /\ inPos' = p.pos
                       /\ inEof' = p.eof
                       /\ threads' = Append(threads, NewThread(p.data))
                       /\ pc' = "d_read"
                       /\ UNCHANGED <<inBad, outcome>>
    /\ UNCHANGED <<entry, input, compressed, decompressed, joined,
                   compressedChunks, decompressedChunks, compressionMutex,
                   decompressionMutex, output_mutex, threadException>>

\* lines 168-172: thread.join() on the next thread
DecompressJoin ==
    /\ outcome = "running"
    /\ pc = "d_join"
    /\ joined < Len(threads)
    /\ threads[joined + 1].pc = "done"
    /\ joined' = joined + 1
    /\ UNCHANGED <<entry, pc, outcome, input, compressed, decompressed, inPos,
                   inEof, inBad, threads, compressedChunks, decompressedChunks,
                   compressionMutex, decompressionMutex, output_mutex,
                   threadException>>

\* lines 175-183: after the join loop, rethrow the captured exception, else
\* write the collected chunks one after the other and return
DecompressFinish ==
    /\ outcome = "running"
    /\ pc = "d_join"
    /\ joined = Len(threads)
    /\ IF threadException # 0
          THEN /\ outcome' = "error"
               /\ pc' = "d_rethrown"
               /\ UNCHANGED decompressed
          ELSE /\ decompressed' = decompressed \o Concat(decompressedChunks)
               /\ outcome' = "ok"
               /\ pc' = "done"
    /\ UNCHANGED <<entry, input, compressed, inPos, inEof, inBad, threads, joined,
                   compressedChunks, decompressedChunks, compressionMutex,
                   decompressionMutex, output_mutex, threadException>>

(* ------------------------------------------------------------------------ *)
(* decompressFile, the lambda of a worker thread (lines 155-164)            *)
(* ------------------------------------------------------------------------ *)

InDecompress == pc \in {"d_read", "d_join"}

\* line 157: decompressBlock(compressedBuffer, CHUNK_SIZE)
DecompressWorkerRun(i) ==
    /\ outcome = "running"
    /\ InDecompress
    /\ threads[i].pc = "run"
    /\ \E zOK \in BOOLEAN :
          LET r == decompressBlock(threads[i].buffer, CHUNK_SIZE, zOK)
          IN threads' = [threads EXCEPT
                 ![i].pc = IF r.threw THEN "catch" ELSE "lock",
                 ![i].result = r.data,
                 ![i].threw = r.threw,
                 ![i].originalSize = CHUNK_SIZE]
    /\ UNCHANGED <<entry, pc, outcome, input, compressed, decompressed, inPos,
                   inEof, inBad, joined, compressedChunks, decompressedChunks,
                   compressionMutex, decompressionMutex, output_mutex,
                   threadException>>

\* line 158: std::lock_guard<std::mutex> lock(decompressionMutex)
DecompressWorkerLock(i) ==
    /\ outcome = "running"
    /\ InDecompress
    /\ threads[i].pc = "lock"
    /\ decompressionMutex = 0
    /\ decompressionMutex' = i
    /\ threads' = [threads EXCEPT ![i].pc = "push"]
    /\ UNCHANGED <<entry, pc, outcome, input, compressed, decompressed, inPos,
                   inEof, inBad, joined, compressedChunks, decompressedChunks,
                   compressionMutex, output_mutex, threadException>>

\* line 159 and the end of the try block
DecompressWorkerPush(i) ==
    /\ outcome = "running"
    /\ InDecompress
    /\ threads[i].pc = "push"
    /\ decompressedChunks' = Append(decompressedChunks, threads[i].result)
    /\ decompressionMutex' = 0
    /\ threads' = [threads EXCEPT ![i].pc = "done"]
    /\ UNCHANGED <<entry, pc, outcome, input, compressed, decompressed, inPos,
                   inEof, inBad, joined, compressedChunks, compressionMutex,
                   output_mutex, threadException>>

\* line 161: std::lock_guard<std::mutex> lock(output_mutex)
DecompressWorkerCatch(i) ==
    /\ outcome = "running"
    /\ InDecompress
    /\ threads[i].pc = "catch"
    /\ output_mutex = 0
    /\ output_mutex' = i
    /\ threads' = [threads EXCEPT ![i].pc = "store"]
    /\ UNCHANGED <<entry, pc, outcome, input, compressed, decompressed, inPos,
                   inEof, inBad, joined, compressedChunks, decompressedChunks,
                   compressionMutex, decompressionMutex, threadException>>

\* line 162 and the end of the handler
DecompressWorkerStore(i) ==
    /\ outcome = "running"
    /\ InDecompress
    /\ threads[i].pc = "store"
    /\ threadException' = i
    /\ output_mutex' = 0
    /\ threads' = [threads EXCEPT ![i].pc = "done"]
    /\ UNCHANGED <<entry, pc, outcome, input, compressed, decompressed, inPos,
                   inEof, inBad, joined, compressedChunks, decompressedChunks,
                   compressionMutex, decompressionMutex>>

(* ------------------------------------------------------------------------ *)
(* The specification                                                        *)
(* ------------------------------------------------------------------------ *)

Next ==
    \/ CompressOpen
    \/ CompressReadChunk
    \/ CompressJoin
    \/ CompressFinish
    \/ DecompressOpen
    \/ DecompressReadRecord
    \/ DecompressJoin
    \/ DecompressFinish
    \/ \E i \in 1..Len(threads) :
          \/ CompressWorkerRun(i)
          \/ CompressWorkerLock(i)
          \/ CompressWorkerPush(i)
          \/ CompressWorkerCatch(i)
          \/ CompressWorkerStore(i)
          \/ DecompressWorkerRun(i)
          \/ DecompressWorkerLock(i)
          \/ DecompressWorkerPush(i)
          \/ DecompressWorkerCatch(i)
          \/ DecompressWorkerStore(i)

Spec == Init /\ [][Next]_vars

(* ------------------------------------------------------------------------ *)
(* Vocabulary of the properties                                             *)
(* ------------------------------------------------------------------------ *)

\* the calling thread is inside compressFile, or left it by the rethrow
CompressPhase == pc \in {"c_read", "c_join", "c_rethrown"}

\* compressFile has returned to main, which has not yet called decompressFile
CompressReturned == entry = "main" /\ pc = "decompressFile"

\* the calling thread is inside decompressFile, or has left it
DecompressPhase ==
    pc \in {"d_read", "d_join", "d_bad_header", "d_truncated", "d_rethrown", "done"}

\* the worker threads that were started and have not finished
Live == {i \in 1..Len(threads) : threads[i].pc # "done"}

\* the worker threads whose codec call failed
Failed == {i \in 1..Len(threads) : threads[i].threw}

\* the buffers the threads were started on, in the order of their start
Buffers == [i \in 1..Len(threads) |-> threads[i].buffer]

Rethrown == pc \in {"c_rethrown", "d_rethrown"}

\* the worker-pool ceiling of the specification (its sections 4.3 and 5): a
\* number of concurrent workers fixed by the hardware, not by the input
WorkerPoolCeiling == 2

\* the stream has its magic tag: at least four bytes, and they are "CMP1"
HasMagic(s) == Len(s) >= Len(Magic) /\ SubSeq(s, 1, Len(Magic)) = Magic

\* walking the records of stream s from offset pos, one is found whose
\* length field is complete and whose payload is cut short by the end of s
RECURSIVE EndsMidPayload(_, _)
EndsMidPayload(s, pos) ==
    IF Len(s) - pos < SizeofULong THEN FALSE
    ELSE LET n == ULongValue(SubSeq(s, pos + 1, pos + SizeofULong))
         IN IF Len(s) - pos - SizeofULong < n THEN TRUE
            ELSE EndsMidPayload(s, pos + SizeofULong + n)

(* ------------------------------------------------------------------------ *)
(* C1 .. C10                                                                *)
(* ------------------------------------------------------------------------ *)

\* C1: when compressFile returns, the output is the header followed by the
\* records of the chunks in ascending chunk index: the i-th record is the
\* compressed form of the i-th chunk of the input, whatever the order in
\* which the workers finished.
C1_RecordsInIndexOrder ==
    CompressReturned =>
        compressed = Magic \o Records([i \in 1..NumChunks(Len(input)) |->
                                          ZCompress(ChunkAt(input, i))])

\* C2: round trip: when main has run compressFile on the input and then
\* decompressFile on its output, and both completed, the decompressed file
\* is the input.
C2_RoundTrip ==
    (entry = "main" /\ pc = "done") => decompressed = input

C4_FirstFailureWins ==
    [][threadException # 0 => threadException' = threadException]_vars

\* C5: once a worker has failed, the operation writes nothing of what the
\* other workers produced: compressFile's output stays the bare header,
\* decompressFile's output stays empty, and neither operation completes.
C5_NoOutputOnFailure ==
    Failed # {} =>
        /\ CompressPhase => compressed = Magic
        /\ DecompressPhase => decompressed = <<>>
        /\ ~CompressReturned
        /\ pc # "done"

\* C5, its case: a failure was raised by compressFile while the collector
\* held the result of a worker that succeeded
C5_Witness ==
    pc = "c_rethrown" /\ compressedChunks # <<>>

\* C6: the number of workers started and not yet finished never exceeds the
\* worker-pool ceiling.
C6_BoundedWorkers ==
    Cardinality(Live) <= WorkerPoolCeiling

\* C7: decompressFile on a stream that does not start with the magic tag
\* (wrong tag, or fewer than four bytes) fails with the format error of the
\* header check, having read no length field, started no worker and written
\* no byte.
C7_BadMagicRejected ==
    (DecompressPhase /\ ~HasMagic(compressed)) =>
        /\ pc = "d_bad_header"
        /\ outcome = "error"
        /\ inPos <= Len(Magic)
        /\ threads = NoThreads
        /\ decompressed = <<>>

\* C8: decompressFile on a stream that ends mid-payload (a complete length
\* field followed by fewer payload bytes than it announces), whichever
\* record that is, ends with the truncated-record format error leaving the
\* operation, and never completes.
C8_TruncatedRecordRejected ==
    (DecompressPhase /\ HasMagic(compressed) /\ EndsMidPayload(compressed, Len(Magic))
        /\ outcome # "running") =>
        /\ pc = "d_truncated"
        /\ outcome = "error"

\* C9: when decompressFile completes, its output is the concatenation of
\* the decoded chunks in the order their records appear in the stream,
\* whatever the order in which the workers finished.
C9_OutputInRecordOrder ==
    pc = "done" =>
        decompressed = Concat([i \in 1..Len(threads) |->
                                  decompressBlock(threads[i].buffer, CHUNK_SIZE, TRUE).data])

\* C10: as long as no read of the input met an I/O error, the chunks
\* compressFile hands to its workers are, in stream order, a split of what
\* was read so far: no chunk is empty, every chunk but the
\* last has CHUNK_SIZE bytes, and their concatenation is the input read;
\* once the read loop has ended the whole input was read, there are
\* ceil(L / CHUNK_SIZE) chunks, and the last has L mod CHUNK_SIZE bytes
\* when that is not zero.
C10_ChunkSplit ==
    ((CompressPhase \/ CompressReturned) /\ ~inBad) =>
        LET n == Len(threads)
            L == Len(input)
        IN /\ \A i \in 1..n : Len(threads[i].buffer) > 0
           /\ \A i \in 1..(n - 1) : Len(threads[i].buffer) = CHUNK_SIZE
           /\ Concat(Buffers) = SubSeq(input, 1, inPos)
           /\ pc # "c_read" =>
                 /\ inPos = L
                 /\ n * CHUNK_SIZE >= L
                 /\ n > 0 => (n - 1) * CHUNK_SIZE < L
                 /\ n > 0 => Len(threads[n].buffer) =
                        (IF L % CHUNK_SIZE = 0 THEN CHUNK_SIZE ELSE L % CHUNK_SIZE)

\* C10, its case: the read loop has ended on an input of three chunks, the
\* last of them shorter than CHUNK_SIZE
C10_Witness ==
    /\ pc = "c_join"
    /\ Len(threads) = 3
    /\ Len(threads[3].buffer) < CHUNK_SIZE

(* ------------------------------------------------------------------------ *)
(* C11 .. C19                                                               *)
(* ------------------------------------------------------------------------ *)

\* the offsets of stream s at which the four bytes of the magic tag stand
MagicOffsets(s) ==
    {k \in 0..(Len(s) - Len(Magic)) : SubSeq(s, k + 1, k + Len(Magic)) = Magic}

\* C11: from the moment compressFile has opened its files, its output holds
\* the magic tag exactly once, at offset 0: while the workers run the output
\* is the tag alone (it is written before any record), and when the
\* operation returns the tag is followed by the records and nothing else.
\* This holds for the empty input as for any other.
C11_HeaderOnceAtOffsetZero ==
    /\ (CompressPhase \/ CompressReturned) =>
          /\ HasMagic(compressed)
          /\ MagicOffsets(compressed) = {0}
    /\ pc \in {"c_read", "c_join"} => compressed = Magic
    /\ CompressReturned => compressed = Magic \o Records(compressedChunks)

\* C11, its case: compressFile has returned on the empty input, and its
\* output is the tag
C11_Witness ==
    CompressReturned /\ input = <<>> /\ compressed = Magic

\* C12: a read of the input that meets an I/O error makes compressFile fail:
\* the operation does not go on to its join loop as if the stream had
\* ended, and it never returns normally with an output that lacks the
\* unread part of the input.
C12_ReadFailureIsAnError ==
    inBad => (pc # "c_join" /\ ~CompressReturned)

\* the record payload is a stream compress() made
ValidPayload(payload) == ZUncompress(payload, Len(payload)).rc = "Z_OK"

\* the byte length of the raw chunk a valid payload was compressed from
RawLength(payload) == Len(ZUncompress(payload, Len(payload)).data)

\* C13: for every record decompressFile has handed to decompressBlock, the
\* expected size passed is the byte length of the raw chunk the record was
\* compressed from, for a final chunk shorter than CHUNK_SIZE too.
C13_ExpectedSizeIsTrueLength ==
    DecompressPhase =>
        \A i \in 1..Len(threads) :
            (threads[i].pc # "run" /\ ValidPayload(threads[i].buffer)) =>
                threads[i].originalSize = RawLength(threads[i].buffer)

\* C14: decompressFile never returns or raises while a worker it started is
\* unjoined: at every exit, the truncated-record error included, every
\* started thread has been joined, so the error leaves the operation and
\* the process is not terminated.
C14_NoExitWithUnjoinedWorker ==
    (DecompressPhase /\ outcome # "running") =>
        /\ joined = Len(threads)
        /\ outcome # "terminate"

\* the workers that are at the push_back on the collector
Pushing == {i \in 1..Len(threads) : threads[i].pc = "push"}

\* the workers that are at the assignment to threadException
Storing == {i \in 1..Len(threads) : threads[i].pc = "store"}

\* the mutex that guards the collector of the operation under way
CollectorMutex == IF pc \in {"c_read", "c_join"} THEN compressionMutex ELSE decompressionMutex

\* C15: a worker mutates the result collector only while it holds the
\* collector's mutex and the failure slot only while it holds output_mutex,
\* so at no time are two workers at the mutation of the collector, nor two
\* at the mutation of the failure slot.
C15_MutationsUnderLock ==
    /\ Cardinality(Pushing) <= 1
    /\ Cardinality(Storing) <= 1
    /\ \A i \in Pushing : CollectorMutex = i
    /\ \A i \in Storing : output_mutex = i

\* C15, its case: one worker is at the push_back while another, its result
\* ready, waits for the mutex, and a third is at the assignment to the
\* failure slot
C15_Witness ==
    /\ pc \in {"c_read", "c_join"}
    /\ \E i, j, k \in 1..Len(threads) :
          /\ threads[i].pc = "push"
          /\ threads[j].pc = "lock"
          /\ threads[k].pc = "store"

\* the steps of the calling thread
CallerStep ==
    \/ CompressOpen
    \/ CompressReadChunk
    \/ CompressJoin
    \/ CompressFinish
    \/ DecompressOpen
    \/ DecompressReadRecord
    \/ DecompressJoin
    \/ DecompressFinish

\* the statements a worker thread has yet to execute
ThreadRank(t) ==
    CASE t.pc = "run" -> 3
      [] t.pc \in {"lock", "catch"} -> 2
      [] t.pc \in {"push", "store"} -> 1
      [] OTHER -> 0

RECURSIVE ThreadsRank(_)
ThreadsRank(ths) ==
    IF ths = <<>> THEN 0 ELSE ThreadRank(Head(ths)) + ThreadsRank(Tail(ths))

\* how far the calling thread is from the end of main, counted in the
\* phases it has yet to pass
PhaseRank ==
    CASE pc = "compressFile" -> 6
      [] pc = "c_read" -> 5
      [] pc = "c_join" -> 4
      [] pc = "decompressFile" -> 3
      [] pc = "d_read" -> 2
      [] pc = "d_join" -> 1
      [] OTHER -> 0

\* the bytes of inFile not yet read
Unread ==
    IF pc = "c_read" THEN Len(input) - inPos
    ELSE IF pc = "d_read" THEN Len(compressed) - inPos
    ELSE 0

\* a bound on the number of steps the process can still take: the phases
\* ahead outweigh everything within a phase, an unread byte outweighs the
\* thread it may start, and every join and every statement of a worker
\* counts one
Rank ==
    IF outcome # "running" THEN 0
    ELSE 1 + 1000 * PhaseRank + 5 * Unread + (Len(threads) - joined)
           + (IF pc \in {"c_read", "c_join", "d_read", "d_join"}
                 THEN ThreadsRank(threads) ELSE 0)

\* C16: every run ends once the scheduler keeps running a thread that can
\* take a step: until the run has ended (the operation completed, an error
\* left it, or the process was ended) some thread can take a step, so there
\* is no deadlock, and every step brings the end nearer by a measure that
\* is never negative.  Until then the calling thread can always take its
\* next step except in a join loop, where it waits for a worker; and a
\* mutex that is held is held by a worker at the statement after which it
\* releases it, so no worker waits for a lock forever.
C16_Terminates ==
    /\ [](outcome = "running" =>
            IF pc \in {"c_join", "d_join"} THEN ENABLED Next ELSE ENABLED CallerStep)
    /\ [][Rank' < Rank]_vars
    /\ [](Rank >= 0)
    /\ [](outcome = "running" =>
            /\ compressionMutex # 0 => threads[compressionMutex].pc = "push"
            /\ decompressionMutex # 0 => threads[decompressionMutex].pc = "push"
            /\ output_mutex # 0 => threads[output_mutex].pc = "store")

\* C16, its case: the calling thread of main is in the join loop of its
\* second operation, three workers started, while one worker holds the
\* collector's mutex and another waits for it
C16_Witness ==
    /\ entry = "main"
    /\ pc = "d_join"
    /\ Len(threads) = 3
    /\ \E i, j \in 1..Len(threads) : threads[i].pc = "push" /\ threads[j].pc = "lock"

\* C17: the calling thread reads the collector and the failure slot and
\* writes results only after it has joined every worker it started: while
\* it is in a read loop or a join loop nothing but the header has been
\* written, and once it is past the join loop (it returned, completed or
\* rethrew) no worker is running and all were joined.
C17_ReadAndWriteAfterJoin ==
    /\ pc \in {"c_read", "c_join"} => compressed = Magic
    /\ pc \in {"d_read", "d_join"} => decompressed = <<>>
    /\ (CompressReturned \/ Rethrown \/ pc = "done") =>
          /\ Live = {}
          /\ joined = Len(threads)

\* C17, its case: decompressFile has written its output after joining three
\* workers
C17_Witness ==
    pc = "done" /\ Len(threads) = 3 /\ decompressed # <<>>

\* how often x occurs in the sequence s
CountIn(s, x) == Cardinality({i \in DOMAIN s : s[i] = x})

\* the sequences a and b hold the same elements, each as often
SameBag(a, b) ==
    /\ Len(a) = Len(b)
    /\ \A i \in DOMAIN a : CountIn(a, a[i]) = CountIn(b, a[i])

\* the payloads of the records of stream s from offset pos, each taken by
\* its length field; <<-1>> stands for a record cut short by the end of s
RECURSIVE PayloadsOf(_, _)
PayloadsOf(s, pos) ==
    IF pos >= Len(s) THEN <<>>
    ELSE IF Len(s) - pos < SizeofULong THEN << <<-1>> >>
    ELSE LET n == ULongValue(SubSeq(s, pos + 1, pos + SizeofULong))
             from == pos + SizeofULong
         IN IF Len(s) - from < n THEN << <<-1>> >>
            ELSE <<SubSeq(s, from + 1, from + n)>> \o PayloadsOf(s, from + n)

\* C18: when no worker failed the collector holds, after the join, one
\* result per started worker, none lost and none twice: the payloads of the
\* records compressFile wrote, each delimited by its own length field, are
\* as a multiset the compressed forms of the chunks it started workers on,
\* and the chunks decompressFile wrote are as a multiset the decoded forms
\* of the records it started workers on.
C18_OneResultPerChunk ==
    /\ CompressReturned =>
          /\ Len(compressedChunks) = Len(threads)
          /\ SameBag(PayloadsOf(compressed, Len(Magic)),
                     [i \in 1..Len(threads) |-> compressBlock(threads[i].buffer, TRUE).data])
    /\ pc = "done" =>
          /\ Len(decompressedChunks) = Len(threads)
          /\ SameBag(decompressedChunks,
                     [i \in 1..Len(threads) |->
                         decompressBlock(threads[i].buffer, CHUNK_SIZE, TRUE).data])
          /\ decompressed = Concat(decompressedChunks)

\* C18, its case: compressFile has returned with the results of three
\* workers collected in another order than the workers were started in
C18_Witness ==
    /\ CompressReturned
    /\ Len(threads) = 3
    /\ compressedChunks # [i \in 1..Len(threads) |-> ZCompress(threads[i].buffer)]

\* walking the records of stream s from offset pos, the stream ends inside
\* a length field: at least one of its bytes is there, but not all
RECURSIVE EndsInLengthField(_, _)
EndsInLengthField(s, pos) ==
    IF pos >= Len(s) THEN FALSE
    ELSE IF Len(s) - pos < SizeofULong THEN TRUE
    ELSE LET n == ULongValue(SubSeq(s, pos + 1, pos + SizeofULong))
         IN IF Len(s) - pos - SizeofULong < n THEN FALSE
            ELSE EndsInLengthField(s, pos + SizeofULong + n)

\* the records of stream s that are complete, which are all but the cut one
CompleteRecords(s) ==
    LET all == PayloadsOf(s, Len(Magic))
    IN IF all # <<>> /\ all[Len(all)] = <<-1>> THEN SubSeq(all, 1, Len(all) - 1) ELSE all

\* C19: decompressFile on a stream that ends inside a length field (after
\* the header or after a complete record) takes that for the end of the
\* stream: no format error is raised, the workers started are those of the
\* complete records, and the operation ends only by completing with the
\* chunks decoded from them or by rethrowing the failure of a worker.
C19_PartialLengthFieldEndsStream ==
    (DecompressPhase /\ HasMagic(compressed) /\ EndsInLengthField(compressed, Len(Magic))) =>
        /\ pc \notin {"d_bad_header", "d_truncated"}
        /\ outcome # "terminate"
        /\ pc \in {"d_join", "d_rethrown", "done"} => Buffers = CompleteRecords(compressed)
        /\ pc = "done" =>
              /\ outcome = "ok"
              /\ SameBag(decompressedChunks,
                         [i \in 1..Len(threads) |->
                             decompressBlock(threads[i].buffer, CHUNK_SIZE, TRUE).data])
              /\ decompressed = Concat(decompressedChunks)

\* C19, its case: decompressFile has completed on a stream of one complete
\* record followed by a part of a length field, with the chunk of that
\* record as its output
C19_Witness ==
    /\ pc = "done"
    /\ HasMagic(compressed)
    /\ EndsInLengthField(compressed, Len(Magic))
    /\ Len(threads) = 1
    /\ decompressed # <<>>

====
